---- MODULE Spec2Model ----
(***************************************************************************)
(* scripts/audio_to_audio/convert_nemo_to_lhotse.py: conversion of a NeMo  *)
(* audio-to-audio manifest into a Lhotse cut manifest.                     *)
(*                                                                         *)
(* A manifest item is a function from its keys (strings) to values.  An    *)
(* optional value is a sequence of length at most one: <<>> is Python's    *)
(* None, <<v>> is the value v.  A path is the record                       *)
(* [dir, stem, ext] standing for the string dir/stem+ext, where dir is     *)
(* [abs, parts].  Times are in milliseconds.                               *)
(***************************************************************************)
EXTENDS Integers, Sequences, FiniteSets, TLC

VARIABLES
    manifest,   \* the items of the input manifest, in file order
    pos,        \* number of items load_jsonl has yielded so far
    pc,         \* "start", "loop", "done" or "aborted": where main() is
    writer,     \* "unopened", "open" or "closed": the CutSet writer
    opens,      \* number of calls of CutSet.open_writer
    written,    \* the cuts handed to writer.write, in order
    popped,     \* per written cut: the keys item.pop removed from its item
    copied,     \* per written cut: the keys cut.custom.update(item) copied
    error       \* <<>>, or <<e>> for the exception that left main()

vars == <<manifest, pos, pc, writer, opens, written, popped, copied, error>>

-----------------------------------------------------------------------------
(* Bounds of the model. *)

MaxRecords == 2
MaxFiles == 3

-----------------------------------------------------------------------------
(* Keys. *)

INPUT_CHANNEL_SELECTOR == "input_channel_selector"
TARGET_CHANNEL_SELECTOR == "target_channel_selector"
REFERENCE_CHANNEL_SELECTOR == "reference_channel_selector"
LHOTSE_TARGET_CHANNEL_SELECTOR == "target_recording_channel_selector"
LHOTSE_REFERENCE_CHANNEL_SELECTOR == "reference_recording_channel_selector"

\* parse_args: the defaults of --input_key, --target_key, --reference_key,
\* --embedding_key.
input_key == "audio_filepath"
target_key == "target_filepath"
reference_key == "reference_filepath"
embedding_key == "embedding_filepath"

DURATION == "duration"
OFFSET == "offset"
DefaultOffset == 0

-----------------------------------------------------------------------------
(* Generic helpers. *)

None == <<>>
Some(v) == <<v>>

EmptyMap == [k \in {} |-> 0]

\* list(range(a, b))
Range(a, b) == [i \in 1..(IF b > a THEN b - a ELSE 0) |-> a + i - 1]

\* dict without key k
Remove(f, k) == [x \in DOMAIN f \ {k} |-> f[x]]

\* dict.update(g) on f: g's values win
Update(f, g) == g @@ f

NoError == <<>>
Raise(type, msg) == <<[type |-> type, msg |-> msg]>>

-----------------------------------------------------------------------------
(* The file system: what the probes of the files return. *)

ManifestDir == [abs |-> TRUE, parts |-> <<"manifests">>]
DataDir == [abs |-> TRUE, parts |-> <<"data">>]
RelDir == [abs |-> FALSE, parts |-> <<>>]

\* lhotse.audio.info(p): channels, samplerate, frames of an audio file, by stem.
AudioInfo ==
    ( "m16a" :> [channels |-> 1, samplerate |-> 16000, frames |-> 16000] )
 @@ ( "m16b" :> [channels |-> 1, samplerate |-> 16000, frames |-> 32000] )
 @@ ( "m8a"  :> [channels |-> 1, samplerate |-> 8000,  frames |-> 8000]  )
 @@ ( "m8b"  :> [channels |-> 1, samplerate |-> 8000,  frames |-> 16000] )
 @@ ( "s16a" :> [channels |-> 2, samplerate |-> 16000, frames |-> 16000] )
 @@ ( "s16b" :> [channels |-> 2, samplerate |-> 16000, frames |-> 32000] )
 @@ ( "s8a"  :> [channels |-> 2, samplerate |-> 8000,  frames |-> 8000]  )
 @@ ( "s8b"  :> [channels |-> 2, samplerate |-> 8000,  frames |-> 16000] )

info(p) ==
    LET i == AudioInfo[p.stem]
    IN  [channels |-> i.channels, samplerate |-> i.samplerate, frames |-> i.frames,
         duration |-> (i.frames * 1000) \div i.samplerate]

\* np.load(path).shape, by stem.
ArrayShape == ( "emb" :> <<3, 4>> ) @@ ( "vec" :> <<5>> )

\* Mutant of PathSplit: os.path.splitext in place of os.path.split, the tail
\* without its extension.
PathSplitExt(p) == [parent |-> p.dir, base |-> p.stem]

\* os.path.split(path): (head, tail)
PathSplit(p) == [parent |-> p.dir, base |-> p.stem \o p.ext]

\* str.endswith
EndsWith(p, suffix) == p.ext = suffix

\* path[0], the first character of the path string
FirstChar(p) == IF p.dir.abs THEN "/" ELSE "."

\* nemo get_full_path: a relative path is resolved against the manifest's
\* directory; a list is resolved element by element.
FullPath(p) ==
    IF p.dir.abs THEN p
    ELSE [p EXCEPT !.dir = [abs |-> ManifestDir.abs, parts |-> ManifestDir.parts \o p.dir.parts]]

get_full_path(audio_file) ==
    [list |-> audio_file.list,
     paths |-> [i \in 1..Len(audio_file.paths) |-> FullPath(audio_file.paths[i])]]

-----------------------------------------------------------------------------
(* create_recording *)

AudioSource(channels, source) == [type |-> "file", channels |-> channels, source |-> source]

\* Recording.from_file(path)
RecordingFromFile(p) ==
    LET i == info(p)
    IN  [id |-> p.stem,
         sources |-> <<AudioSource(Range(0, i.channels), p)>>,
         sampling_rate |-> i.samplerate,
         num_samples |-> i.frames,
         duration |-> i.duration,
         channel_ids |-> Range(0, i.channels)]

\* Mutant of SourceStep: cur_channel_idx advances by one per file, not by the
\* file's channel count.
SourceStepByOne(acc, p) ==
    LET i == info(p)
    IN  [cur_channel_idx |-> acc.cur_channel_idx + 1,
         sources |-> Append(acc.sources,
                            AudioSource(Range(acc.cur_channel_idx,
                                              acc.cur_channel_idx + i.channels), p)),
         infos |-> Append(acc.infos, i)]

\* One iteration of "for p in path_or_paths" on the loop's variables.
SourceStep(acc, p) ==
    LET i == info(p)
    IN  [cur_channel_idx |-> acc.cur_channel_idx + i.channels,
         sources |-> Append(acc.sources,
                            AudioSource(Range(acc.cur_channel_idx,
                                              acc.cur_channel_idx + i.channels), p)),
         infos |-> Append(acc.infos, i)]

RECURSIVE SourceLoop(_, _, _)
SourceLoop(paths, k, acc) ==
    IF k > Len(paths) THEN acc
    ELSE SourceLoop(paths, k + 1, SourceStep(acc, paths[k]))

\* all(i.samplerate == infos[0].samplerate for i in infos[1:])
SameRates(infos) ==
    \A k \in 2..Len(infos) : infos[k].samplerate = infos[1].samplerate

\* Mutant of Aggregate: the last file's figures, infos[-1], not the first's.
AggregateLast(infos) ==
    [sampling_rate |-> infos[Len(infos)].samplerate,
     num_samples |-> infos[Len(infos)].frames,
     duration |-> infos[Len(infos)].duration]

\* sampling_rate, num_samples, duration of the multi-file Recording
Aggregate(infos) ==
    [sampling_rate |-> infos[1].samplerate,
     num_samples |-> infos[1].frames,
     duration |-> infos[1].duration]

\* The result is [err, rec]: the exception raised, or the Recording.
create_recording(path_or_paths) ==
    IF path_or_paths.list
    THEN LET paths == path_or_paths.paths
             acc == SourceLoop(paths, 1,
                               [cur_channel_idx |-> 0, sources |-> <<>>, infos |-> <<>>])
         IN  IF ~SameRates(acc.infos)
             THEN [err |-> Raise("AssertionError", "Mismatched sampling rates"), rec |-> None]
             ELSE IF paths = <<>>
             THEN [err |-> Raise("UnboundLocalError", "p"), rec |-> None]
             ELSE LET agg == Aggregate(acc.infos)
                  IN  [err |-> NoError,
                       rec |-> Some([id |-> FirstChar(paths[Len(paths)]),
                                     sources |-> acc.sources,
                                     sampling_rate |-> agg.sampling_rate,
                                     num_samples |-> agg.num_samples,
                                     duration |-> agg.duration,
                                     channel_ids |-> Range(0, acc.cur_channel_idx)])]
    ELSE [err |-> NoError, rec |-> Some(RecordingFromFile(path_or_paths.paths[1]))]

-----------------------------------------------------------------------------
(* create_array *)

\* The result is [err, arr]: the exception raised, or the Array.
create_array(path) ==
    IF ~EndsWith(path, ".npy")
    THEN [err |-> Raise("AssertionError", "only numpy files"), arr |-> None]
    ELSE LET s == PathSplit(path)
         IN  [err |-> NoError,
              arr |-> Some([storage_type |-> "numpy_files",
                            storage_path |-> s.parent,
                            storage_key |-> s.base,
                            shape |-> ArrayShape[path.stem]])]

-----------------------------------------------------------------------------
(* The Lhotse cut operations main() calls. *)

\* Recording.to_cut(): a cut over the whole recording, all its channels.
to_cut(recording) ==
    [id |-> recording.id,
     start |-> 0,
     duration |-> recording.duration,
     channel |-> recording.channel_ids,
     recording |-> recording,
     target_recording |-> None,
     reference_recording |-> None,
     embedding_vector |-> None,
     custom |-> None]

\* Cut.truncate(duration=..., offset=...)
truncate(cut, duration, offset) ==
    [cut EXCEPT !.start = cut.start + offset, !.duration = duration]

\* Cut.num_channels, Recording.num_channels
num_channels(x) == IF "channel" \in DOMAIN x THEN Len(x.channel) ELSE Len(x.channel_ids)

\* Cut.with_channels(channels)
with_channels(cut, channels) == [cut EXCEPT !.channel = channels]

\* The dict behind cut.custom once a custom attribute is stored: a cut is
\* built with custom = None, and the first custom attribute creates the dict.
\* The dict of the model holds the custom fields other than the attributes
\* target_recording, reference_recording and embedding_vector, which the cut
\* record carries as fields of their own.
CustomDict(cut) == IF cut.custom = None THEN EmptyMap ELSE cut.custom[1]

\* Cut.with_custom(name, value)
with_custom(cut, name, value) ==
    [cut EXCEPT !.custom = Some(Update(CustomDict(cut), name :> value))]

\* cut.<name> = value for the custom attributes target_recording,
\* reference_recording, embedding_vector
SetAttr(cut, name, value) ==
    LET c == [cut EXCEPT !.custom = Some(CustomDict(cut))]
    IN  CASE name = "target_recording" -> [c EXCEPT !.target_recording = Some(value)]
          [] name = "reference_recording" -> [c EXCEPT !.reference_recording = Some(value)]
          [] name = "embedding_vector" -> [c EXCEPT !.embedding_vector = Some(value)]

-----------------------------------------------------------------------------
(* The body of "for item in load_jsonl(args.input)", statement by          *)
(* statement, on the loop's variables st = [item, popped, copied, cut,     *)
(* err].  A statement after a raised exception does nothing.               *)

LoopState(item) ==
    [item |-> item, popped |-> {}, copied |-> {}, cut |-> None, err |-> NoError]

Fail(st, err) == [st EXCEPT !.err = err]

\* Mutant of PopKey: item.get(k) in place of item.pop(k), the key is read and
\* stays in the item.
PopKeyKeeps(st, k) ==
    [st EXCEPT !.popped = st.popped \cup ({k} \cap DOMAIN st.item)]

\* item.pop(k), item.pop(k, default): the key leaves the item.
PopKey(st, k) ==
    [st EXCEPT !.item = Remove(st.item, k),
               !.popped = st.popped \cup ({k} \cap DOMAIN st.item)]

\* Line 97: recording = create_recording(get_full_path(item.pop(input_key)))
\* and recording.to_cut() of line 98.
RecordingStep(st) ==
    IF st.err # NoError THEN st
    ELSE IF input_key \notin DOMAIN st.item THEN Fail(st, Raise("KeyError", input_key))
    ELSE LET r == create_recording(get_full_path(st.item[input_key]))
             st1 == PopKey(st, input_key)
         IN  IF r.err # NoError THEN Fail(st1, r.err)
             ELSE [st1 EXCEPT !.cut = Some(to_cut(r.rec[1]))]

\* Line 98: .truncate(duration=item.pop("duration"), offset=item.pop("offset", 0.0))
TruncateStep(st) ==
    IF st.err # NoError THEN st
    ELSE IF DURATION \notin DOMAIN st.item THEN Fail(st, Raise("KeyError", DURATION))
    ELSE LET duration == st.item[DURATION]
             st1 == PopKey(st, DURATION)
             offset == IF OFFSET \in DOMAIN st1.item THEN st1.item[OFFSET] ELSE DefaultOffset
             st2 == PopKey(st1, OFFSET)
         IN  [st2 EXCEPT !.cut = Some(truncate(st.cut[1], duration, offset))]

\* Mutant of InputSelectorStep: no single-channel branch, the cut is always
\* narrowed to the selector.
InputSelectorStepAlwaysNarrow(st) ==
    IF st.err # NoError THEN st
    ELSE IF INPUT_CHANNEL_SELECTOR \notin DOMAIN st.item THEN st
    ELSE [st EXCEPT !.item = Remove(st.item, INPUT_CHANNEL_SELECTOR),
                    !.popped = st.popped \cup {INPUT_CHANNEL_SELECTOR},
                    !.cut = Some(with_channels(st.cut[1], st.item[INPUT_CHANNEL_SELECTOR]))]

\* Lines 100-106: the input channel selector.
InputSelectorStep(st) ==
    IF st.err # NoError THEN st
    ELSE IF INPUT_CHANNEL_SELECTOR \notin DOMAIN st.item THEN st
    ELSE LET channels == st.item[INPUT_CHANNEL_SELECTOR]
             st1 == PopKey(st, INPUT_CHANNEL_SELECTOR)
         IN  IF num_channels(st.cut[1]) = 1
             THEN IF Len(channels) = 1 THEN st1
                  ELSE Fail(st1, Raise("AssertionError", INPUT_CHANNEL_SELECTOR))
             ELSE [st1 EXCEPT !.cut = Some(with_channels(st.cut[1], channels))]

\* Lines 108-118 (key = target_key) and lines 120-130 (key = reference_key).
SideRecordingStep(st, key, attr, selector, lhotse_selector) ==
    IF st.err # NoError THEN st
    ELSE IF key \notin DOMAIN st.item THEN st
    ELSE LET r == create_recording(get_full_path(st.item[key]))
             st1 == PopKey(st, key)
         IN  IF r.err # NoError THEN Fail(st1, r.err)
             ELSE LET cut1 == SetAttr(st.cut[1], attr, r.rec[1])
                      st2 == [st1 EXCEPT !.cut = Some(cut1)]
                  IN  IF selector \notin DOMAIN st2.item THEN st2
                      ELSE LET channels == st2.item[selector]
                               st3 == PopKey(st2, selector)
                           IN  IF num_channels(r.rec[1]) = 1
                               THEN IF Len(channels) = 1 THEN st3
                                    ELSE Fail(st3, Raise("AssertionError", selector))
                               ELSE [st3 EXCEPT !.cut =
                                        Some(with_custom(cut1, lhotse_selector, channels))]

TargetStep(st) ==
    SideRecordingStep(st, target_key, "target_recording",
                      TARGET_CHANNEL_SELECTOR, LHOTSE_TARGET_CHANNEL_SELECTOR)

ReferenceStep(st) ==
    SideRecordingStep(st, reference_key, "reference_recording",
                      REFERENCE_CHANNEL_SELECTOR, LHOTSE_REFERENCE_CHANNEL_SELECTOR)

\* Lines 132-135: the embedding.
EmbeddingStep(st) ==
    IF st.err # NoError THEN st
    ELSE IF embedding_key \notin DOMAIN st.item THEN st
    ELSE LET a == create_array(FullPath(st.item[embedding_key]))
             st1 == PopKey(st, embedding_key)
         IN  IF a.err # NoError THEN Fail(st1, a.err)
             ELSE [st1 EXCEPT !.cut = Some(SetAttr(st.cut[1], "embedding_vector", a.arr[1]))]

\* Lines 137-138: any field that is still left goes to the custom fields.
CustomStep(st) ==
    IF st.err # NoError THEN st
    ELSE IF st.item = EmptyMap THEN st
    ELSE IF st.cut[1].custom = None
    THEN Fail(st, Raise("AttributeError", "'NoneType' object has no attribute 'update'"))
    ELSE [st EXCEPT !.cut = Some([st.cut[1] EXCEPT
                                     !.custom = Some(Update(CustomDict(st.cut[1]), st.item))]),
                    !.copied = DOMAIN st.item]

\* Lines 97-138 for one item.
ConvertItem(item) ==
    CustomStep(EmbeddingStep(ReferenceStep(TargetStep(
        InputSelectorStep(TruncateStep(RecordingStep(LoopState(item))))))))

-----------------------------------------------------------------------------
(* main() *)

\* Line 93: with CutSet.open_writer(args.output) as writer
OpenWriter ==
    /\ pc = "start"
    /\ writer' = "open"
    /\ opens' = opens + 1
    /\ pc' = "loop"
    /\ UNCHANGED <<manifest, pos, written, popped, copied, error>>

\* Mutant of WriteCut: the cut is put in front of the cuts written so far.
WriteCutInFront ==
    /\ pc = "loop"
    /\ pos < Len(manifest)
    /\ LET st == ConvertItem(manifest[pos + 1])
       IN  /\ st.err = NoError
           /\ written' = <<st.cut[1]>> \o written
           /\ popped' = <<st.popped>> \o popped
           /\ copied' = <<st.copied>> \o copied
    /\ pos' = pos + 1
    /\ UNCHANGED <<manifest, pc, writer, opens, error>>

\* Lines 94-140: the next item converts, and writer.write(cut) appends its cut.
WriteCut ==
    /\ pc = "loop"
    /\ pos < Len(manifest)
    /\ LET st == ConvertItem(manifest[pos + 1])
       IN  /\ st.err = NoError
           /\ written' = Append(written, st.cut[1])
           /\ popped' = Append(popped, st.popped)
           /\ copied' = Append(copied, st.copied)
    /\ pos' = pos + 1
    /\ UNCHANGED <<manifest, pc, writer, opens, error>>

\* Mutant of AbortItem: the writer is opened without a with block, and an
\* exception leaves main() with the writer still open.
AbortItemWriterLeftOpen ==
    /\ pc = "loop"
    /\ pos < Len(manifest)
    /\ LET st == ConvertItem(manifest[pos + 1])
       IN  /\ st.err # NoError
           /\ error' = st.err
    /\ pos' = pos + 1
    /\ pc' = "aborted"
    /\ UNCHANGED <<manifest, writer, opens, written, popped, copied>>

\* Lines 94-138: a statement of the loop body raises; the exception leaves the
\* with block, whose exit closes the writer, and then main().
AbortItem ==
    /\ pc = "loop"
    /\ pos < Len(manifest)
    /\ LET st == ConvertItem(manifest[pos + 1])
       IN  /\ st.err # NoError
           /\ error' = st.err
    /\ pos' = pos + 1
    /\ pc' = "aborted"
    /\ writer' = "closed"
    /\ UNCHANGED <<manifest, opens, written, popped, copied>>

\* Line 94 at the end of the input: the loop ends and the with block's exit
\* closes the writer.
CloseWriter ==
    /\ pc = "loop"
    /\ pos = Len(manifest)
    /\ pc' = "done"
    /\ writer' = "closed"
    /\ UNCHANGED <<manifest, pos, opens, written, popped, copied, error>>

Next == OpenWriter \/ WriteCut \/ AbortItem \/ CloseWriter

\* The state at the entry of main(), for the manifests of a set.
InitWith(manifests) ==
    /\ manifest \in manifests
    /\ pos = 0
    /\ pc = "start"
    /\ writer = "unopened"
    /\ opens = 0
    /\ written = <<>>
    /\ popped = <<>>
    /\ copied = <<>>
    /\ error = NoError

-----------------------------------------------------------------------------
(* The inputs. *)

Opt(S) == {None} \cup {Some(v) : v \in S}

Field(k, opt) == IF opt = None THEN EmptyMap ELSE (k :> opt[1])

AudioPath(stem) == [dir |-> RelDir, stem |-> stem, ext |-> ".wav"]
OneFile(stem) == [list |-> FALSE, paths |-> <<AudioPath(stem)>>]
FileList(stems) == [list |-> TRUE, paths |-> [i \in 1..Len(stems) |-> AudioPath(stems[i])]]

\* The item of the optional fields: audio path, duration, offset, input
\* selector, target path and selector, reference path and selector, embedding
\* path, "speaker", and fields named like the two Lhotse selector keys.
Item(audio, dur, off, insel, tgt, tsel, ref, rsel, emb, spk, tcust, rcust) ==
       Field(input_key, audio) @@ Field(DURATION, dur) @@ Field(OFFSET, off)
    @@ Field(INPUT_CHANNEL_SELECTOR, insel)
    @@ Field(target_key, tgt) @@ Field(TARGET_CHANNEL_SELECTOR, tsel)
    @@ Field(reference_key, ref) @@ Field(REFERENCE_CHANNEL_SELECTOR, rsel)
    @@ Field(embedding_key, emb) @@ Field("speaker", spk)
    @@ Field(LHOTSE_TARGET_CHANNEL_SELECTOR, tcust)
    @@ Field(LHOTSE_REFERENCE_CHANNEL_SELECTOR, rcust)

Selectors == {<<0>>, <<0, 1>>}
Embeddings == {[dir |-> DataDir, stem |-> "emb", ext |-> ".npy"],
               [dir |-> RelDir, stem |-> "vec", ext |-> ".npy"],
               [dir |-> RelDir, stem |-> "emb", ext |-> ".wav"]}

\* One-item manifests: every combination of the fields.
InitItem ==
    \E a \in Opt({OneFile("m16a"), OneFile("s16a"),
                  FileList(<<"s16a", "m16b">>), FileList(<<"m16a", "m8a">>)}),
       d \in Opt({300}), o \in Opt({100}), is \in Opt(Selectors),
       t \in Opt({OneFile("m16b"), OneFile("s16b")}), ts \in Opt(Selectors),
       r \in Opt({OneFile("m8a"), FileList(<<"m8b", "m8a">>)}), rs \in Opt(Selectors),
       e \in Opt(Embeddings), sp \in Opt({"A"}), tc \in Opt({<<1, 0>>}) :
        InitWith({<<Item(a, d, o, is, t, ts, r, rs, e, sp, tc, None)>>})

SpecItem == InitItem /\ [][Next]_vars

\* File lists of up to MaxFiles files, each with a duration.
SeqsUpTo(S, n) == UNION {[1..k -> S] : k \in 0..n}

InitRecording ==
    \E stems \in SeqsUpTo(DOMAIN AudioInfo, MaxFiles) :
        InitWith({<<Item(Some(FileList(stems)), Some(300), None, None, None, None,
                         None, None, None, None, None, None)>>})

SpecRecording == InitRecording /\ [][Next]_vars

\* Manifests of up to MaxRecords items: items that convert, and one item for
\* each way a conversion raises.
RunItems ==
    { Item(Some(OneFile("m16a")), Some(300), None, None, None, None, None, None,
           None, None, None, None),
      Item(Some(OneFile("s16a")), Some(300), Some(100), Some(<<1>>),
           Some(OneFile("s16b")), Some(<<0, 1>>), None, None,
           Some([dir |-> DataDir, stem |-> "emb", ext |-> ".npy"]), Some("A"), None, None),
      Item(Some(FileList(<<"s16a", "m16b">>)), Some(300), None, None,
           Some(OneFile("m16b")), Some(<<0>>), Some(OneFile("m8a")), None,
           None, None, None, None),
      Item(Some(OneFile("m16a")), None, None, None, None, None, None, None,
           None, None, None, None),
      Item(Some(FileList(<<"m16a", "m8a">>)), Some(300), None, None, None, None, None, None,
           None, None, None, None),
      Item(Some(OneFile("m16a")), Some(300), None, Some(<<0, 1>>), None, None, None, None,
           None, None, None, None),
      Item(Some(OneFile("m16a")), Some(300), None, None, None, None, None, None,
           Some([dir |-> RelDir, stem |-> "emb", ext |-> ".wav"]), None, None, None),
      Item(Some(OneFile("m16a")), Some(300), None, None, None, None, None, None,
           None, Some("A"), None, None) }

Init == InitWith(SeqsUpTo(RunItems, MaxRecords))

Spec == Init /\ [][Next]_vars

-----------------------------------------------------------------------------
(* What the manifest and the files say about an item, stated on the input  *)
(* alone.                                                                  *)

Has(item, k) == k \in DOMAIN item

\* c_1 + ... + c_(k-1) for the channel counts of the files of a list
RECURSIVE ChannelsBefore(_, _)
ChannelsBefore(paths, k) ==
    IF k <= 1 THEN 0
    ELSE ChannelsBefore(paths, k - 1) + AudioInfo[paths[k - 1].stem].channels

NumChannels(pv) == ChannelsBefore(pv.paths, Len(pv.paths) + 1)

RateMismatch(pv) ==
    /\ pv.list
    /\ \E k \in 2..Len(pv.paths) :
          AudioInfo[pv.paths[k].stem].samplerate # AudioInfo[pv.paths[1].stem].samplerate

\* The recording of a path value can be built.
Buildable(pv) == ~RateMismatch(pv) /\ pv.paths # <<>>

\* A selector is acceptable for a recording: on a single channel it names one channel.
SelectorFits(item, key, selector) ==
    (Has(item, selector) /\ NumChannels(item[key]) = 1) => Len(item[selector]) = 1

PrimaryOk(item) ==
    /\ Has(item, input_key) /\ Buildable(item[input_key]) /\ Has(item, DURATION)
    /\ SelectorFits(item, input_key, INPUT_CHANNEL_SELECTOR)

SideOk(item, key, selector) ==
    Has(item, key) => Buildable(item[key]) /\ SelectorFits(item, key, selector)

EmbeddingOk(item) == Has(item, embedding_key) => item[embedding_key].ext = ".npy"

\* The item is one the converter is specified to accept.
ValidItem(item) ==
    /\ PrimaryOk(item)
    /\ SideOk(item, target_key, TARGET_CHANNEL_SELECTOR)
    /\ SideOk(item, reference_key, REFERENCE_CHANNEL_SELECTOR)
    /\ EmbeddingOk(item)

\* Item i was converted and its cut written.
Emitted(i) == i \in 1..Len(written)

\* The last item read raised.
Aborted == pc = "aborted"

-----------------------------------------------------------------------------
(* Claims. *)

\* C1: for every item converted without error, the keys popped from the item
\* and the keys copied into the cut's custom fields are disjoint, and together
\* they are the keys of the original item.
C1_ConsumedCopiedPartition ==
    \A i \in 1..Len(written) :
        /\ popped[i] \cap copied[i] = {}
        /\ popped[i] \cup copied[i] = DOMAIN manifest[i]
        /\ copied[i] \subseteq DOMAIN CustomDict(written[i])

C1_Witness ==
    \E i \in 1..Len(written) :
        /\ {input_key, DURATION, target_key, TARGET_CHANNEL_SELECTOR} \subseteq popped[i]
        /\ "speaker" \in copied[i]

\* C2: the cuts written are, at every point of a run, the conversions of a
\* prefix of the input items, in input order, one cut per item; a finished
\* run has written a cut for every item, and a run that aborted on item k has
\* written the cuts of items 1..k-1 and nothing for item k.
C2_WrittenIsPrefix ==
    /\ Len(written) <= pos /\ pos <= Len(manifest)
    /\ \A i \in 1..Len(written) :
          LET st == ConvertItem(manifest[i])
          IN  st.err = NoError /\ written[i] = st.cut[1]
    /\ pc \in {"start", "loop", "done"} => Len(written) = pos
    /\ pc = "start" => pos = 0
    /\ pc = "done" => Len(written) = Len(manifest)
    /\ pc = "aborted" =>
          /\ pos >= 1 /\ Len(written) = pos - 1
          /\ ConvertItem(manifest[pos]).err = error /\ error # NoError

C2_Witness ==
    /\ pc = "aborted" /\ pos = 2 /\ Len(written) = 1 /\ Len(manifest) > 1
    /\ error = Raise("AssertionError", "Mismatched sampling rates")

\* C3: the writer is opened exactly once, before the first item is read; it is
\* closed on every exit of main(), after the last item and when an item
\* raises; and nothing is written once it is closed.
C3_WriterScope ==
    /\ [](/\ pc = "start" => (opens = 0 /\ writer = "unopened" /\ pos = 0)
          /\ pc # "start" => opens = 1
          /\ pc = "loop" => writer = "open"
          /\ pc \in {"done", "aborted"} => writer = "closed"
          /\ writer = "closed" => pc \in {"done", "aborted"})
    /\ [][writer = "closed" => (written' = written /\ writer' = "closed")]_vars
    /\ [][written' # written => (writer = "open" /\ writer' = "open")]_vars

C3_Witness ==
    /\ pc = "aborted" /\ writer = "closed" /\ opens = 1 /\ Len(written) >= 1

\* C4: for a list of files with channel counts c_1..c_n, the k-th source has
\* the channels c_1+...+c_(k-1) .. c_1+...+c_k - 1; the blocks are pairwise
\* disjoint, in list order, and together are the recording's channels
\* 0..(c_1+...+c_n)-1.
C4_ChannelBlocks ==
    \A i \in 1..Len(written) :
        LET pv == manifest[i][input_key]
            rec == written[i].recording
            n == Len(pv.paths)
            block(k) == {rec.sources[k].channels[j] : j \in 1..Len(rec.sources[k].channels)}
        IN  pv.list =>
              /\ Len(rec.sources) = n
              /\ \A k \in 1..n :
                    /\ rec.sources[k].channels =
                          Range(ChannelsBefore(pv.paths, k), ChannelsBefore(pv.paths, k + 1))
                    /\ rec.sources[k].source.stem = pv.paths[k].stem
              /\ \A k, l \in 1..n : k # l => block(k) \cap block(l) = {}
              /\ rec.channel_ids = Range(0, NumChannels(pv))
              /\ UNION {block(k) : k \in 1..n} = 0..(NumChannels(pv) - 1)

C4_Witness ==
    \E i \in 1..Len(written) :
        /\ manifest[i][input_key].list
        /\ Len(written[i].recording.sources) = 2
        /\ written[i].recording.sources[1].channels = <<0, 1>>
        /\ written[i].recording.sources[2].channels = <<2>>

\* C5: create_recording on a list raises the sampling-rate assertion exactly
\* when some file's sampling rate differs from the first file's, and then no
\* recording is built; otherwise the recording's sampling rate, sample count
\* and duration are the first file's.
C5_FirstFileAggregate ==
    pos >= 1 =>
        LET pv == manifest[pos][input_key]
            first == AudioInfo[pv.paths[1].stem]
        IN  pv.list =>
              /\ (Aborted /\ error = Raise("AssertionError", "Mismatched sampling rates"))
                    <=> RateMismatch(pv)
              /\ RateMismatch(pv) => ~Emitted(pos)
              /\ Emitted(pos) =>
                    /\ written[pos].recording.sampling_rate = first.samplerate
                    /\ written[pos].recording.num_samples = first.frames
                    /\ written[pos].recording.duration
                          = (first.frames * 1000) \div first.samplerate

C5_Witness ==
    /\ pos = 1 /\ Emitted(1)
    /\ LET pv == manifest[1][input_key]
       IN  /\ pv.list /\ Len(pv.paths) >= 2
           /\ AudioInfo[pv.paths[2].stem].frames # AudioInfo[pv.paths[1].stem].frames
           /\ written[1].recording.num_samples = AudioInfo[pv.paths[1].stem].frames

\* C6: when the input, target or reference recording is built, has one
\* channel and the item carries its channel selector, the conversion raises
\* the selector's assertion unless the selector has length 1; a primary
\* recording of several channels is narrowed to the input selector's channels.
C6_SelectorCardinality ==
    pos >= 1 =>
        LET it == manifest[pos]
            reachedInput == Has(it, input_key) /\ Buildable(it[input_key]) /\ Has(it, DURATION)
            reachedTarget == PrimaryOk(it) /\ Has(it, target_key) /\ Buildable(it[target_key])
            reachedReference ==
                /\ PrimaryOk(it) /\ SideOk(it, target_key, TARGET_CHANNEL_SELECTOR)
                /\ Has(it, reference_key) /\ Buildable(it[reference_key])
            raised(selector) == Aborted /\ error = Raise("AssertionError", selector)
        IN  /\ raised(INPUT_CHANNEL_SELECTOR) <=>
                  (reachedInput /\ ~SelectorFits(it, input_key, INPUT_CHANNEL_SELECTOR))
            /\ raised(TARGET_CHANNEL_SELECTOR) <=>
                  (reachedTarget /\ ~SelectorFits(it, target_key, TARGET_CHANNEL_SELECTOR))
            /\ raised(REFERENCE_CHANNEL_SELECTOR) <=>
                  (reachedReference
                     /\ ~SelectorFits(it, reference_key, REFERENCE_CHANNEL_SELECTOR))
            /\ (Emitted(pos) /\ Has(it, INPUT_CHANNEL_SELECTOR)) =>
                  IF NumChannels(it[input_key]) > 1
                  THEN written[pos].channel = it[INPUT_CHANNEL_SELECTOR]
                  ELSE written[pos].channel = <<0>>

C6_Witness ==
    /\ Aborted /\ error = Raise("AssertionError", REFERENCE_CHANNEL_SELECTOR)
    /\ Has(manifest[pos], target_key)
    /\ Has(manifest[pos], INPUT_CHANNEL_SELECTOR)
    /\ Len(manifest[pos][REFERENCE_CHANNEL_SELECTOR]) = 2

\* C7: a written cut has an embedding exactly when its item has the embedding
\* key; create_array raises for a path that does not end in ".npy", and for
\* one that does the array's storage path is the file's directory, its
\* storage key the file's base name and its shape the on-disk shape.
C7_EmbeddingArray ==
    /\ \A i \in 1..Len(written) :
          LET it == manifest[i]
              p == it[embedding_key]
          IN  /\ written[i].embedding_vector # None <=> Has(it, embedding_key)
              /\ Has(it, embedding_key) =>
                    /\ p.ext = ".npy"
                    /\ written[i].embedding_vector[1] =
                          [storage_type |-> "numpy_files",
                           storage_path |-> FullPath(p).dir,
                           storage_key |-> p.stem \o ".npy",
                           shape |-> ArrayShape[p.stem]]
    /\ pos >= 1 =>
          LET it == manifest[pos]
              bad == Has(it, embedding_key) /\ it[embedding_key].ext # ".npy"
              reached == /\ PrimaryOk(it)
                         /\ SideOk(it, target_key, TARGET_CHANNEL_SELECTOR)
                         /\ SideOk(it, reference_key, REFERENCE_CHANNEL_SELECTOR)
          IN  /\ bad => Aborted
              /\ (Aborted /\ error = Raise("AssertionError", "only numpy files"))
                    <=> (reached /\ bad)

C7_Witness ==
    \E i \in 1..Len(written) :
        /\ written[i].embedding_vector # None
        /\ written[i].embedding_vector[1].shape = <<3, 4>>
        /\ written[i].embedding_vector[1].storage_key = "emb.npy"
        /\ written[i].embedding_vector[1].storage_path = DataDir

\* C8: a written cut has a target (reference) recording exactly when its item
\* has the target (reference) key; when that recording has several channels
\* and the item carries the target (reference) channel selector, the cut's
\* custom fields hold that selector under target_recording_channel_selector
\* (reference_recording_channel_selector) and do not hold the source key.
C8_SelectorUnderLhotseKey ==
    \A i \in 1..Len(written) :
        LET it == manifest[i]
            custom == CustomDict(written[i])
            side(key, rec, selector, lhotse_selector) ==
                /\ rec # None <=> Has(it, key)
                /\ (Has(it, key) /\ NumChannels(it[key]) > 1 /\ Has(it, selector)) =>
                      /\ Has(custom, lhotse_selector)
                      /\ custom[lhotse_selector] = it[selector]
                      /\ ~Has(custom, selector)
        IN  /\ side(target_key, written[i].target_recording,
                    TARGET_CHANNEL_SELECTOR, LHOTSE_TARGET_CHANNEL_SELECTOR)
            /\ side(reference_key, written[i].reference_recording,
                    REFERENCE_CHANNEL_SELECTOR, LHOTSE_REFERENCE_CHANNEL_SELECTOR)

\* C9: every key the converter does not consume is in the written cut's custom
\* fields with its value (an item the converter accepts, with the extra field
\* "speaker": "A", yields a cut whose custom fields hold "speaker": "A"); an
\* item of a single-file primary path and a duration (and an offset) yields a
\* cut with start 0 (the offset), the item's duration and no custom fields.
C9_LeftoverKeysCopied ==
    /\ \A i \in 1..Len(written) :
          LET it == manifest[i]
              custom == CustomDict(written[i])
          IN  /\ \A k \in DOMAIN it \ popped[i] : Has(custom, k) /\ custom[k] = it[k]
              /\ DOMAIN it \subseteq {input_key, DURATION, OFFSET} =>
                    /\ written[i].start = (IF Has(it, OFFSET) THEN it[OFFSET] ELSE 0)
                    /\ written[i].duration = it[DURATION]
                    /\ custom = EmptyMap
    /\ pos >= 1 =>
          LET it == manifest[pos]
          IN  (ValidItem(it) /\ Has(it, "speaker")) =>
                 /\ Emitted(pos)
                 /\ CustomDict(written[pos])["speaker"] = it["speaker"]

\* C10: a target (reference) channel selector is read only when the item has
\* the target (reference) key: an item the converter accepts that lacks the
\* key yields a cut whose custom fields hold the selector under its original
\* name, the selector neither popped nor checked; and with a single-channel
\* target (reference) recording a length-1 selector is popped and is nowhere
\* in the written cut.
C10_SelectorOnlyWithRecording ==
    pos >= 1 =>
        LET it == manifest[pos]
            side(key, selector, lhotse_selector) ==
                /\ (ValidItem(it) /\ ~Has(it, key) /\ Has(it, selector)) =>
                      /\ Emitted(pos)
                      /\ selector \notin popped[pos]
                      /\ Has(CustomDict(written[pos]), selector)
                      /\ CustomDict(written[pos])[selector] = it[selector]
                /\ (Emitted(pos) /\ Has(it, key) /\ Has(it, selector)
                      /\ NumChannels(it[key]) = 1) =>
                      /\ selector \in popped[pos]
                      /\ ~Has(CustomDict(written[pos]), selector)
                      /\ Has(CustomDict(written[pos]), lhotse_selector)
                            => Has(it, lhotse_selector)
        IN  /\ side(target_key, TARGET_CHANNEL_SELECTOR, LHOTSE_TARGET_CHANNEL_SELECTOR)
            /\ side(reference_key, REFERENCE_CHANNEL_SELECTOR,
                    LHOTSE_REFERENCE_CHANNEL_SELECTOR)

====
